---- MODULE Spec2Model ----
(***************************************************************************)
(* Model of aws_textract_redmart.py: the date parser, the date and table   *)
(* locators, the CSV exporter and the per-file batch loop.                 *)
(*                                                                         *)
(* Text is a sequence of one-character strings, so that case folding,      *)
(* substring tests, trimming, formatting and parsing are computed on the   *)
(* characters.  A date is a record [year, month, day]; Python's None and   *)
(* the exceptions a call raises are the records below.                     *)
(***************************************************************************)
EXTENDS Integers, Sequences, FiniteSets, TLC

VARIABLES
    pc,                  \* position of the running program
    arg,                 \* argument record of the function under call
    ret,                 \* value returned (or exception raised) by that call
    files,               \* result of glob.glob: one analysis outcome per pdf
    file,                \* index in files of the file being processed
    textractor_document, \* document returned by process_invoice_file
    dt,                  \* result of locate_invoice_date
    idx,                 \* result of locate_invoice_table
    out_files,           \* out_files[k]: csv rows written for file k, or None
    log                  \* records emitted through logging, in order

vars == <<pc, arg, ret, files, file, textractor_document, dt, idx, out_files, log>>

\* Python's None, and the exceptions a call can raise; a call that returns an
\* integer returns [value |-> n], so that every result is a record
None == [kind |-> "None"]
ValueError == [exc |-> "ValueError"]
IndexError == [exc |-> "IndexError"]
AnalysisError == [exc |-> "AnalysisError"]
Returns(v) == [value |-> v]

(***************************************************************************)
(* Bounds of the model.                                                    *)
(***************************************************************************)
MinYear == 2018
MaxYear == 2020
MaxFiles == 2
MaxTables == 3
MaxPairs == 3
MaxRows == 3

(***************************************************************************)
(* Characters and text.                                                    *)
(***************************************************************************)
UpperSeq == <<"A","B","C","D","E","F","G","H","I","J","K","L","M",
              "N","O","P","Q","R","S","T","U","V","W","X","Y","Z">>
LowerSeq == <<"a","b","c","d","e","f","g","h","i","j","k","l","m",
              "n","o","p","q","r","s","t","u","v","w","x","y","z">>
DigitSeq == <<"0","1","2","3","4","5","6","7","8","9">>

\* characters str.strip() removes and the regex class \s matches
Whitespace == {" ", "\t", "\n", "\r", "\f"}

IsDigit(c) == \E k \in 1..10 : DigitSeq[k] = c
DigitVal(c) == (CHOOSE k \in 1..10 : DigitSeq[k] = c) - 1
IsSpace(c) == c \in Whitespace

\* character of s at position p, "" past the end
At(s, p) == IF p >= 1 /\ p <= Len(s) THEN s[p] ELSE ""

LowerChar(c) ==
    IF \E k \in 1..26 : UpperSeq[k] = c
    THEN LowerSeq[CHOOSE k \in 1..26 : UpperSeq[k] = c]
    ELSE c

UpperChar(c) ==
    IF \E k \in 1..26 : LowerSeq[k] = c
    THEN UpperSeq[CHOOSE k \in 1..26 : LowerSeq[k] = c]
    ELSE c

\* str.lower()
lower(s) == [k \in 1..Len(s) |-> LowerChar(s[k])]

\* str.upper()
upper(s) == [k \in 1..Len(s) |-> UpperChar(s[k])]

\* the Python test  sub in s
contains(s, sub) ==
    \E p \in 0..(Len(s) - Len(sub)) :
        \A k \in 1..Len(sub) : s[p + k] = sub[k]

RECURSIVE lstrip(_)
lstrip(s) == IF s # <<>> /\ IsSpace(Head(s)) THEN lstrip(Tail(s)) ELSE s

RECURSIVE rstrip(_)
rstrip(s) ==
    IF s # <<>> /\ IsSpace(s[Len(s)]) THEN rstrip(SubSeq(s, 1, Len(s) - 1)) ELSE s

\* str.strip()
strip(s) == rstrip(lstrip(s))

(***************************************************************************)
(* Calendar: the names the C locale gives to %B and %A, and datetime's     *)
(* validity and weekday rules.                                             *)
(***************************************************************************)
month_name == <<
    <<"J","a","n","u","a","r","y">>,
    <<"F","e","b","r","u","a","r","y">>,
    <<"M","a","r","c","h">>,
    <<"A","p","r","i","l">>,
    <<"M","a","y">>,
    <<"J","u","n","e">>,
    <<"J","u","l","y">>,
    <<"A","u","g","u","s","t">>,
    <<"S","e","p","t","e","m","b","e","r">>,
    <<"O","c","t","o","b","e","r">>,
    <<"N","o","v","e","m","b","e","r">>,
    <<"D","e","c","e","m","b","e","r">> >>

\* day_name[1] is Monday, as date.weekday() = 0
day_name == <<
    <<"M","o","n","d","a","y">>,
    <<"T","u","e","s","d","a","y">>,
    <<"W","e","d","n","e","s","d","a","y">>,
    <<"T","h","u","r","s","d","a","y">>,
    <<"F","r","i","d","a","y">>,
    <<"S","a","t","u","r","d","a","y">>,
    <<"S","u","n","d","a","y">> >>

IsLeap(y) == (y % 4 = 0) /\ ((y % 100 # 0) \/ (y % 400 = 0))

DaysInMonth(y, m) ==
    IF m = 2 THEN (IF IsLeap(y) THEN 29 ELSE 28)
    ELSE IF m \in {4, 6, 9, 11} THEN 30 ELSE 31

\* the checks of the datetime constructor
ValidDate(y, m, d) ==
    /\ y >= 1 /\ y <= 9999
    /\ m >= 1 /\ m <= 12
    /\ d >= 1 /\ d <= DaysInMonth(y, m)

RECURSIVE DaysBeforeMonth(_, _)
DaysBeforeMonth(y, m) ==
    IF m <= 1 THEN 0 ELSE DaysBeforeMonth(y, m - 1) + DaysInMonth(y, m - 1)

\* date.toordinal()
toordinal(d) ==
    LET y1 == d.year - 1 IN
    y1 * 365 + (y1 \div 4) - (y1 \div 100) + (y1 \div 400)
        + DaysBeforeMonth(d.year, d.month) + d.day

\* date.weekday(): Monday is 0
weekday(d) == (toordinal(d) + 6) % 7

(***************************************************************************)
(* datetime.strftime for the directives the program formats with.          *)
(***************************************************************************)
RECURSIVE Decimal(_)
Decimal(n) ==
    IF n < 10 THEN <<DigitSeq[n + 1]>>
    ELSE Decimal(n \div 10) \o <<DigitSeq[(n % 10) + 1]>>

\* %d and %m: two digits, zero padded
Pad2(n) == IF n < 10 THEN <<"0">> \o Decimal(n) ELSE Decimal(n)

\* a format string is the sequence of its directives and literal characters
FmtDBY == <<"%d", " ", "%B", ",", " ", "%Y">>
FmtADBY == <<"%A", ",", " ", "%d", " ", "%B", ",", " ", "%Y">>
FmtYMD == <<"%Y", "-", "%m", "-", "%d">>

FormatDirective(d, tok) ==
    CASE tok = "%d" -> Pad2(d.day)
      [] tok = "%m" -> Pad2(d.month)
      [] tok = "%Y" -> Decimal(d.year)
      [] tok = "%B" -> month_name[d.month]
      [] tok = "%A" -> day_name[weekday(d) + 1]
      [] OTHER -> <<tok>>

RECURSIVE strftime(_, _)
strftime(d, fmt) ==
    IF fmt = <<>> THEN <<>>
    ELSE FormatDirective(d, Head(fmt)) \o strftime(d, Tail(fmt))

(***************************************************************************)
(* datetime.strptime: the format becomes a regular expression that is      *)
(* matched, ignoring case, at the start of the string; the match must      *)
(* consume the whole string and the fields must form a valid date.         *)
(* A matcher returns the position after the match in end, 0 for no match.  *)
(***************************************************************************)
NoMatch == [end |-> 0, val |-> 0]

\* the day directive without its zero-padded alternative 0[1-9]
MatchDay_NoZeroPad(s, p) ==
    LET c1 == At(s, p)
        c2 == At(s, p + 1)
    IN  IF c1 = "3" /\ c2 \in {"0", "1"}
        THEN [end |-> p + 2, val |-> 30 + DigitVal(c2)]
        ELSE IF c1 \in {"1", "2"} /\ IsDigit(c2)
        THEN [end |-> p + 2, val |-> 10 * DigitVal(c1) + DigitVal(c2)]
        ELSE IF IsDigit(c1) /\ c1 # "0"
        THEN [end |-> p + 1, val |-> DigitVal(c1)]
        ELSE IF c1 = " " /\ IsDigit(c2) /\ c2 # "0"
        THEN [end |-> p + 2, val |-> DigitVal(c2)]
        ELSE NoMatch

\* (?P<d>3[0-1]|[1-2]\d|0[1-9]|[1-9]| [1-9])
MatchDay(s, p) ==
    LET c1 == At(s, p)
        c2 == At(s, p + 1)
    IN  IF c1 = "3" /\ c2 \in {"0", "1"}
        THEN [end |-> p + 2, val |-> 30 + DigitVal(c2)]
        ELSE IF c1 \in {"1", "2"} /\ IsDigit(c2)
        THEN [end |-> p + 2, val |-> 10 * DigitVal(c1) + DigitVal(c2)]
        ELSE IF c1 = "0" /\ IsDigit(c2) /\ c2 # "0"
        THEN [end |-> p + 2, val |-> DigitVal(c2)]
        ELSE IF IsDigit(c1) /\ c1 # "0"
        THEN [end |-> p + 1, val |-> DigitVal(c1)]
        ELSE IF c1 = " " /\ IsDigit(c2) /\ c2 # "0"
        THEN [end |-> p + 2, val |-> DigitVal(c2)]
        ELSE NoMatch

\* (?P<m>1[0-2]|0[1-9]|[1-9])
MatchMonth(s, p) ==
    LET c1 == At(s, p)
        c2 == At(s, p + 1)
    IN  IF c1 = "1" /\ c2 \in {"0", "1", "2"}
        THEN [end |-> p + 2, val |-> 10 + DigitVal(c2)]
        ELSE IF c1 = "0" /\ IsDigit(c2) /\ c2 # "0"
        THEN [end |-> p + 2, val |-> DigitVal(c2)]
        ELSE IF IsDigit(c1) /\ c1 # "0"
        THEN [end |-> p + 1, val |-> DigitVal(c1)]
        ELSE NoMatch

\* (?P<Y>\d\d\d\d)
MatchYear(s, p) ==
    IF \A k \in 0..3 : IsDigit(At(s, p + k))
    THEN [end |-> p + 4,
          val |-> 1000 * DigitVal(s[p]) + 100 * DigitVal(s[p + 1])
                    + 10 * DigitVal(s[p + 2]) + DigitVal(s[p + 3])]
    ELSE NoMatch

\* an alternation of names, matched ignoring case; val is the name's index
MatchName(s, p, names) ==
    LET hit(k) == /\ p + Len(names[k]) - 1 <= Len(s)
                  /\ lower(SubSeq(s, p, p + Len(names[k]) - 1)) = lower(names[k])
    IN  IF \E k \in 1..Len(names) : hit(k)
        THEN LET k == CHOOSE k \in 1..Len(names) : hit(k)
             IN  [end |-> p + Len(names[k]), val |-> k]
        ELSE NoMatch

\* \s+
RECURSIVE SkipSpaces(_, _)
SkipSpaces(s, p) == IF IsSpace(At(s, p)) THEN SkipSpaces(s, p + 1) ELSE p

MatchSpaces(s, p) ==
    IF IsSpace(At(s, p)) THEN [end |-> SkipSpaces(s, p), val |-> 0] ELSE NoMatch

\* a literal character of the format
MatchLiteral(s, p, c) ==
    IF LowerChar(At(s, p)) = LowerChar(c) THEN [end |-> p + 1, val |-> 0] ELSE NoMatch

MatchDirective(s, p, tok) ==
    CASE tok = "%d" -> MatchDay(s, p)
      [] tok = "%m" -> MatchMonth(s, p)
      [] tok = "%Y" -> MatchYear(s, p)
      [] tok = "%B" -> MatchName(s, p, month_name)
      [] tok = "%A" -> MatchName(s, p, day_name)
      [] tok = " " -> MatchSpaces(s, p)
      [] OTHER -> MatchLiteral(s, p, tok)

\* format_regex.match(data_string): found holds the groups matched so far
RECURSIVE regex_match(_, _, _, _)
regex_match(s, p, fmt, found) ==
    IF fmt = <<>> THEN [end |-> p, found |-> found]
    ELSE LET tok == Head(fmt)
             m == MatchDirective(s, p, tok)
             nf == CASE tok = "%d" -> [found EXCEPT !.day = m.val]
                     [] tok = "%m" -> [found EXCEPT !.month = m.val]
                     [] tok = "%B" -> [found EXCEPT !.month = m.val]
                     [] tok = "%Y" -> [found EXCEPT !.year = m.val]
                     [] OTHER -> found
         IN  IF m.end = 0 THEN [end |-> 0, found |-> found]
             ELSE regex_match(s, m.end, Tail(fmt), nf)

strptime(value, fmt) ==
    LET m == regex_match(value, 1, fmt, [year |-> 1900, month |-> 1, day |-> 1])
    IN  IF m.end = 0 THEN ValueError                     \* does not match format
        ELSE IF m.end # Len(value) + 1 THEN ValueError   \* unconverted data remains
        ELSE IF ~ValidDate(m.found.year, m.found.month, m.found.day) THEN ValueError
        ELSE m.found

(***************************************************************************)
(* parse_redmart_date                                                      *)
(***************************************************************************)
formats == <<FmtDBY, FmtADBY, FmtYMD>>

RECURSIVE TryFormats(_, _)
TryFormats(value, fs) ==
    IF fs = <<>> THEN None
    ELSE LET d == strptime(value, Head(fs))
         IN  IF d = ValueError THEN TryFormats(value, Tail(fs))
             ELSE d

\* the parser with the ISO format left out of the list
parse_redmart_date_TwoFormats(value) == TryFormats(value, <<FmtDBY, FmtADBY>>)

parse_redmart_date(value) == TryFormats(value, formats)

(***************************************************************************)
(* locate_invoice_date: a document is [key_values, tables], a key/value    *)
(* pair is [key, value], both texts.                                       *)
(***************************************************************************)
TextDate == <<"d", "a", "t", "e">>

\* the key test without the case folding
KeyHasDate_CaseSensitive(key) == contains(key, TextDate)

\* 'date' in kv.key.text.lower()
KeyHasDate(key) == contains(lower(key), TextDate)

RECURSIVE ScanKeyValues(_)
ScanKeyValues(kvs) ==
    IF kvs = <<>> THEN None
    ELSE LET kv == Head(kvs) IN
         IF KeyHasDate(kv.key)
         THEN LET t == strip(kv.value)
                  d == parse_redmart_date(t)
              IN  IF d # None THEN d ELSE ScanKeyValues(Tail(kvs))
         ELSE ScanKeyValues(Tail(kvs))

locate_invoice_date(document) == ScanKeyValues(document.key_values)

(***************************************************************************)
(* locate_invoice_table: a table is the grid Table.to_pandas() gives, a    *)
(* sequence of rows, each a sequence of cell texts.  df.values[0] raises   *)
(* IndexError on a grid without rows.  Python indexes from 0.              *)
(***************************************************************************)
TextProductName == <<"P", "r", "o", "d", "u", "c", "t", " ", "N", "a", "m", "e">>

\* the header test without the case folding of the cell
Row0Matches_CaseSensitive(row0) ==
    \E c \in 1..Len(row0) : contains(row0[c], lower(TextProductName))

\* next((s for s in row0 if 'Product Name'.lower() in s.lower()), None) is not None
Row0Matches(row0) ==
    \E c \in 1..Len(row0) : contains(lower(row0[c]), lower(TextProductName))

RECURSIVE ScanTables(_, _)
ScanTables(tables, i) ==
    IF i > Len(tables) THEN Returns(-1)
    ELSE LET df == tables[i] IN
         IF Len(df) = 0 THEN IndexError
         ELSE IF Row0Matches(df[1]) THEN Returns(i - 1)
         ELSE ScanTables(tables, i + 1)

locate_invoice_table(tables) == ScanTables(tables, 1)

(***************************************************************************)
(* export_textract_table_to_csv.  The result is what to_csv writes, as the *)
(* sequence of its records, each the sequence of its fields; the exception *)
(* when nothing is written.                                                *)
(***************************************************************************)
LF == "\n"
CR == "\r"

\* the replacement with the empty string in place of the space
ReplaceChar_Delete(s, ch) == SelectSeq(s, LAMBDA c : c # ch)

\* Series.replace(pattern, ' ', regex=True) for a pattern that matches the one
\* character ch: the regular expressions r'\n' and r'\r' match LF and CR
ReplaceChar(s, ch) == [k \in 1..Len(s) |-> IF s[k] = ch THEN " " ELSE s[k]]

ReplaceInFrame(df, ch) ==
    [r \in 1..Len(df) |-> [c \in 1..Len(df[r]) |-> ReplaceChar(df[r][c], ch)]]

\* the date column without the assignment arrd[0] = 'Date'
DateColumn_NoLabel(n, document_date_str) == [r \in 1..n |-> document_date_str]

\* arrd = np.full(shape=len(df), fill_value=document_date_str).tolist()
\* arrd[0] = 'Date'
DateColumn(n, document_date_str) ==
    [r \in 1..n |-> IF r = 1 THEN <<"D", "a", "t", "e">> ELSE document_date_str]

export_textract_table_to_csv(t, document_date) ==
    LET df == ReplaceInFrame(ReplaceInFrame(t, LF), CR)
        document_date_str ==
            IF document_date # None THEN strftime(document_date, FmtYMD) ELSE <<>>
        arrd == DateColumn(Len(df), document_date_str)
    IN  IF Len(df) = 0 THEN IndexError      \* arrd[0] = 'Date' on an empty list
        ELSE [r \in 1..Len(df) |-> Append(df[r], arrd[r])]

(***************************************************************************)
(* Calls of parse_redmart_date.  The argument is the text of a date,       *)
(* possibly not a calendar date (31 June), written in one of the shapes    *)
(* below: the three formats as strftime writes them, variants the three    *)
(* patterns also accept, and texts that none of them accepts.              *)
(***************************************************************************)
Years == (MinYear..MaxYear) \cup {1900, 2000}
DateTexts == [year : Years, month : 1..12, day : 1..31]
IsDate(d) == ValidDate(d.year, d.month, d.day)
Dates == {d \in DateTexts : IsDate(d)}

StrftimeShapes == {"dBY", "AdBY", "Ymd"}
AcceptedShapes == StrftimeShapes \cup
    {"dBY_unpadded", "AdBY_upper", "AdBY_otherday", "dBY_spaces", "Ymd_unpadded"}
RejectedShapes ==
    {"dBY_nocomma", "dBY_untrimmed", "Ymd_time", "dmY_slashes", "text", "empty"}
Shapes == AcceptedShapes \cup RejectedShapes \cup {"dbY_abbrev"}

ShapeFormat(shape) ==
    CASE shape = "dBY" -> FmtDBY
      [] shape = "AdBY" -> FmtADBY
      [] shape = "Ymd" -> FmtYMD

Render(shape, d) ==
    LET B == month_name[d.month]
        Y == Decimal(d.year)
    IN  CASE shape \in StrftimeShapes -> strftime(d, ShapeFormat(shape))
          [] shape = "dBY_unpadded" -> Decimal(d.day) \o <<" ">> \o B \o <<",", " ">> \o Y
          [] shape = "AdBY_upper" -> upper(strftime(d, FmtADBY))
          [] shape = "AdBY_otherday" ->
                day_name[((weekday(d) + 1) % 7) + 1] \o <<",", " ">> \o strftime(d, FmtDBY)
          [] shape = "dBY_spaces" ->
                Pad2(d.day) \o <<" ", " ">> \o B \o <<",", "\t">> \o Y
          [] shape = "Ymd_unpadded" ->
                Y \o <<"-">> \o Decimal(d.month) \o <<"-">> \o Decimal(d.day)
          [] shape = "dbY_abbrev" ->
                Pad2(d.day) \o <<" ">> \o SubSeq(B, 1, 3) \o <<",", " ">> \o Y
          [] shape = "dBY_nocomma" -> Pad2(d.day) \o <<" ">> \o B \o <<" ">> \o Y
          [] shape = "dBY_untrimmed" -> <<" ">> \o strftime(d, FmtDBY) \o <<" ">>
          [] shape = "Ymd_time" -> strftime(d, FmtYMD) \o <<" ", "1", "0", ":", "0", "0">>
          [] shape = "dmY_slashes" -> Pad2(d.day) \o <<"/">> \o Pad2(d.month) \o <<"/">> \o Y
          [] shape = "text" -> <<"n", "o", "t", " ", "a", " ", "d", "a", "t", "e">>
          [] shape = "empty" -> <<>>

\* the batch loop is not running while a single function is called
BatchIdle ==
    /\ files = <<>>
    /\ file = 0
    /\ textractor_document = None
    /\ dt = None
    /\ idx = None
    /\ out_files = <<>>
    /\ log = <<>>

batch_vars == <<files, file, textractor_document, dt, idx, out_files, log>>

InitParse ==
    /\ pc = "call"
    /\ \E shape \in Shapes, d \in DateTexts :
          arg = [shape |-> shape, date |-> d, value |-> Render(shape, d)]
    /\ ret = None
    /\ BatchIdle

CallParse ==
    /\ pc = "call"
    /\ ret' = parse_redmart_date(arg.value)
    /\ pc' = "return"
    /\ UNCHANGED <<arg, batch_vars>>

NextParse == CallParse

SpecParse == InitParse /\ [][NextParse]_vars

\* the date a text of the given shape denotes under the three patterns
Denoted(shape, d) ==
    IF shape \in AcceptedShapes /\ IsDate(d) THEN d
    ELSE IF shape = "dbY_abbrev" /\ d.month = 5 /\ IsDate(d) THEN d
    ELSE None

\* C8: parse_redmart_date returns the date of the pattern the whole input
\* matches, for each of the three patterns, and returns None (it never raises)
\* for an input that matches none of them.
C8_ParseThreePatterns ==
    pc = "return" => ret = Denoted(arg.shape, arg.date)

\* the second pattern matched after the first was tried and failed
C8_Witness ==
    /\ pc = "return"
    /\ arg.shape = "AdBY_otherday"
    /\ ret = arg.date
    /\ strptime(arg.value, FmtDBY) = ValueError

\* C9: for each of the three patterns and every date d of the range,
\* parse_redmart_date(d.strftime(pattern)) = d.
C9_ParseRoundTrip ==
    (pc = "return" /\ arg.shape \in StrftimeShapes /\ IsDate(arg.date))
        => ret = arg.date

\* a leap day written with the weekday pattern was parsed back
C9_Witness ==
    /\ pc = "return"
    /\ arg.shape = "AdBY"
    /\ arg.date = [year |-> 2020, month |-> 2, day |-> 29]
    /\ arg.value = day_name[6] \o <<",", " ", "2", "9", " ">> \o month_name[2]
                        \o <<",", " ", "2", "0", "2", "0">>
    /\ ret = arg.date

(***************************************************************************)
(* Calls of locate_invoice_date.  Each key and each value comes with what  *)
(* it is: whether the key names a date, and the date the value denotes.    *)
(***************************************************************************)
KeyCases == {
    [text |-> <<"I","n","v","o","i","c","e"," ","D","a","t","e",":">>, dated |-> TRUE],
    [text |-> <<"I","s","s","u","e"," ","d","a","t","e">>, dated |-> TRUE],
    [text |-> <<"D","E","L","I","V","E","R","Y"," ","T","I","M","E">>, dated |-> FALSE],
    [text |-> <<"F","o","o">>, dated |-> FALSE] }

ValueCases == {
    [text |-> <<" ","2","3"," ","J","u","n","e",","," ","2","0","1","8">>,
     date |-> [year |-> 2018, month |-> 6, day |-> 23]],
    [text |-> <<"F","r","i","d","a","y",","," ","2","2"," ","J","u","n","e",",",
                " ","2","0","1","8","\n">>,
     date |-> [year |-> 2018, month |-> 6, day |-> 22]],
    [text |-> <<"2","0","1","9","-","1","0","-","3","1">>,
     date |-> [year |-> 2019, month |-> 10, day |-> 31]],
    [text |-> <<"b","a","r">>, date |-> None] }

PairCases == [key : KeyCases, value : ValueCases]

SeqsUpTo(S, n) == UNION {[1..k -> S] : k \in 0..n}

KeyValuesOf(cases) ==
    [k \in 1..Len(cases) |-> [key |-> cases[k].key.text, value |-> cases[k].value.text]]

InitDate ==
    /\ pc = "call"
    /\ \E cases \in SeqsUpTo(PairCases, MaxPairs) :
          arg = [cases |-> cases,
                 document |-> [key_values |-> KeyValuesOf(cases), tables |-> <<>>]]
    /\ ret = None
    /\ BatchIdle

CallDate ==
    /\ pc = "call"
    /\ ret' = locate_invoice_date(arg.document)
    /\ pc' = "return"
    /\ UNCHANGED <<arg, batch_vars>>

NextDate == CallDate

SpecDate == InitDate /\ [][NextDate]_vars

\* pair k has a key that names a date and a value that denotes one
Qualifies(cases, k) == cases[k].key.dated /\ cases[k].value.date # None

\* C5: locate_invoice_date returns the date of the first pair, in the given
\* order, whose key contains "date" in any case and whose trimmed value parses;
\* the other pairs are skipped, and the result is None exactly when no pair
\* qualifies.
C5_FirstDatedPair ==
    pc = "return" =>
        LET cases == arg.cases
            Q == {k \in 1..Len(cases) : Qualifies(cases, k)}
        IN  /\ (Q = {}) <=> (ret = None)
            /\ Q # {} =>
                 ret = cases[CHOOSE k \in Q : \A j \in Q : k <= j].value.date

\* an undated key and a dated key with an unparseable value were skipped, and
\* the third pair, whose value needs trimming, gave the date
C5_Witness ==
    /\ pc = "return"
    /\ Len(arg.cases) = 3
    /\ ~arg.cases[1].key.dated /\ arg.cases[1].value.date # None
    /\ arg.cases[2].key.dated /\ arg.cases[2].value.date = None
    /\ arg.cases[3].key.dated
    /\ arg.cases[3].value.text # strip(arg.cases[3].value.text)
    /\ ret = arg.cases[3].value.date
    /\ ret # None

(***************************************************************************)
(* Calls of locate_invoice_table.                                          *)
(***************************************************************************)
CellProductName == TextProductName
CellPrice == <<"P","r","i","c","e">>
CellDescription == <<"D","e","s","c","r","i","p","t","i","o","n">>
CellQty == <<"Q","t","y">>
CellWidget == <<"W","i","d","g","e","t">>
CellAmount == <<"9",".","9","9">>
CellUpperLines == <<"P","R","O","D","U","C","T"," ","N","A","M","E","\n","(","S","K","U",")">>
CellProduct == <<"P","r","o","d","u","c","t">>
CellName == <<"N","a","m","e">>

TableCases == {
    << <<CellDescription, CellQty>>, <<CellWidget, CellAmount>> >>,
    << <<CellProductName, CellPrice>>, <<CellWidget, CellAmount>> >>,
    << <<CellQty, CellUpperLines>> >>,
    << <<CellDescription, CellQty>>, <<CellProductName, CellAmount>> >>,
    << <<CellProduct, CellName>> >>,
    << >> }

InitTable ==
    /\ pc = "call"
    /\ \E tables \in SeqsUpTo(TableCases, MaxTables) : arg = [tables |-> tables]
    /\ ret = None
    /\ BatchIdle

CallTable ==
    /\ pc = "call"
    /\ ret' = locate_invoice_table(arg.tables)
    /\ pc' = "return"
    /\ UNCHANGED <<arg, batch_vars>>

NextTable == CallTable

SpecTable == InitTable /\ [][NextTable]_vars

TextLowerProductName == <<"p", "r", "o", "d", "u", "c", "t", " ", "n", "a", "m", "e">>

\* some cell of row 0 of the table contains "product name" in any case
HasProductNameHeader(t) ==
    /\ Len(t) >= 1
    /\ \E c \in 1..Len(t[1]) : contains(lower(t[1][c]), TextLowerProductName)

\* the 0-based indexes of the tables that have such a row 0
MatchingTables(tables) == {i \in 0..(Len(tables) - 1) : HasProductNameHeader(tables[i + 1])}

FirstMatchingTable(tables) ==
    IF MatchingTables(tables) = {} THEN -1
    ELSE CHOOSE i \in MatchingTables(tables) : \A j \in MatchingTables(tables) : i <= j

\* C2: locate_invoice_table never raises: a table without rows counts as not
\* matching, the scan goes on, and the result is the first matching table or -1.
C2_ZeroRowTableIsSkipped ==
    pc = "return" => ret = Returns(FirstMatchingTable(arg.tables))

\* C3: when every table has at least one row, locate_invoice_table returns the
\* smallest index whose row 0 has a cell containing "product name" in any case,
\* and -1 exactly when there is none; other rows do not count.
C3_FirstProductNameTable ==
    (pc = "return" /\ \A i \in 1..Len(arg.tables) : Len(arg.tables[i]) >= 1)
        => ret = Returns(FirstMatchingTable(arg.tables))

\* a table with "Product Name" in row 1 only was passed over and the upper-case
\* header after it was found, before another matching table
C3_Witness ==
    /\ pc = "return"
    /\ Len(arg.tables) = 3
    /\ arg.tables[1] = << <<CellDescription, CellQty>>, <<CellProductName, CellAmount>> >>
    /\ arg.tables[2] = << <<CellQty, CellUpperLines>> >>
    /\ arg.tables[3] = << <<CellProductName, CellPrice>>, <<CellWidget, CellAmount>> >>
    /\ ret = Returns(1)

(***************************************************************************)
(* Calls of export_textract_table_to_csv.  The cells hold line feeds,      *)
(* carriage returns, and the two characters backslash and n.               *)
(***************************************************************************)
CellHeaderLines == <<"P","r","o","d","u","c","t","\n","N","a","m","e">>
CellCrLf == <<"U","n","i","t","\r","\n","P","r","i","c","e">>
CellEscaped == <<"C",":","\\","n","e","w","\\","r">>
CellCr == <<"a","\r","b">>

RowCases == {
    <<CellProductName, CellPrice>>,
    <<CellHeaderLines, CellCrLf>>,
    <<CellWidget, CellAmount>>,
    <<CellEscaped, CellCr>>,
    <<CellUpperLines, <<>> >> }

ExportDates == {None} \cup {d \in Dates : d.day = 5 /\ d.month \in {2, 11}}

InitExport ==
    /\ pc = "call"
    /\ \E t \in SeqsUpTo(RowCases, MaxRows), d \in ExportDates :
          arg = [t |-> t, document_date |-> d]
    /\ ret = None
    /\ BatchIdle

CallExport ==
    /\ pc = "call"
    /\ ret' = export_textract_table_to_csv(arg.t, arg.document_date)
    /\ pc' = "return"
    /\ UNCHANGED <<arg, batch_vars>>

NextExport == CallExport

SpecExport == InitExport /\ [][NextExport]_vars

TextDateLabel == <<"D", "a", "t", "e">>

\* the text is the date d written YYYY-MM-DD
IsIsoText(s, d) ==
    /\ Len(s) = 10
    /\ s[5] = "-" /\ s[8] = "-"
    /\ \A k \in {1, 2, 3, 4, 6, 7, 9, 10} : IsDigit(s[k])
    /\ 1000 * DigitVal(s[1]) + 100 * DigitVal(s[2]) + 10 * DigitVal(s[3]) + DigitVal(s[4])
          = d.year
    /\ 10 * DigitVal(s[6]) + DigitVal(s[7]) = d.month
    /\ 10 * DigitVal(s[9]) + DigitVal(s[10]) = d.day

\* the rightmost cell of written row r is the one the Date column holds
DateCellOk(rows, r, d) ==
    LET last == rows[r][Len(rows[r])] IN
    IF r = 1 THEN last = TextDateLabel
    ELSE IF d = None THEN last = <<>>
    ELSE IsIsoText(last, d)

\* the text is s with every line feed and every carriage return replaced by
\* one space and nothing else changed
IsCleaned(out, s) ==
    /\ Len(out) = Len(s)
    /\ \A k \in 1..Len(s) : out[k] = (IF s[k] \in {LF, CR} THEN " " ELSE s[k])

\* as many rows as the table, each one cell longer, ending with the Date cell
DateColumnAppended ==
    /\ Len(ret) = Len(arg.t)
    /\ \A r \in 1..Len(arg.t) :
          /\ Len(ret[r]) = Len(arg.t[r]) + 1
          /\ DateCellOk(ret, r, arg.document_date)

\* C6 as stated: the rows written are the table's rows, each being the table's
\* cells in order followed by one Date cell ("Date" in row 0, then the date as
\* YYYY-MM-DD or the empty string).
C6_RowsAreTableCellsPlusDate ==
    (pc = "return" /\ Len(arg.t) >= 1) =>
        /\ DateColumnAppended
        /\ \A r \in 1..Len(arg.t) : \A c \in 1..Len(arg.t[r]) : ret[r][c] = arg.t[r][c]

\* C6 amended: the rows written are the table's rows, each being the table's
\* cells in order, with every line feed and carriage return in them replaced by
\* a space, followed by one Date cell.
C6_RowsAreCleanedCellsPlusDate ==
    (pc = "return" /\ Len(arg.t) >= 1) =>
        /\ DateColumnAppended
        /\ \A r \in 1..Len(arg.t) : \A c \in 1..Len(arg.t[r]) :
              IsCleaned(ret[r][c], arg.t[r][c])

\* three rows with a cell spanning two lines were written with a date
C6_Witness ==
    /\ pc = "return"
    /\ Len(arg.t) = 3
    /\ arg.t[1] = <<CellHeaderLines, CellCrLf>>
    /\ arg.document_date = [year |-> 2020, month |-> 2, day |-> 5]
    /\ Len(ret) = 3
    /\ ret[1][3] = TextDateLabel
    /\ ret[3][3] = <<"2","0","2","0","-","0","2","-","0","5">>

\* the text s with every occurrence of backslash followed by ch replaced by one
\* space
RECURSIVE ReplaceEscape(_, _)
ReplaceEscape(s, ch) ==
    IF s = <<>> THEN <<>>
    ELSE IF Len(s) >= 2 /\ s[1] = "\\" /\ s[2] = ch
    THEN <<" ">> \o ReplaceEscape(SubSeq(s, 3, Len(s)), ch)
    ELSE <<Head(s)>> \o ReplaceEscape(Tail(s), ch)

\* C7 as stated: in every cell of every row, every two-character sequence
\* backslash-n and backslash-r is replaced by one space, and nothing else
\* changes.
C7_EscapeSequencesReplaced ==
    (pc = "return" /\ Len(arg.t) >= 1) =>
        \A r \in 1..Len(arg.t) : \A c \in 1..Len(arg.t[r]) :
            ret[r][c] = ReplaceEscape(ReplaceEscape(arg.t[r][c], "n"), "r")

\* C7 amended: in every cell of every row, row 0 included, every line feed
\* character and every carriage return character is replaced by one space, and
\* nothing else changes: the two characters backslash and n stay.
C7_LineBreaksReplaced ==
    (pc = "return" /\ Len(arg.t) >= 1) =>
        \A r \in 1..Len(arg.t) : \A c \in 1..Len(arg.t[r]) :
            /\ Len(ret[r][c]) = Len(arg.t[r][c])
            /\ \A k \in 1..Len(arg.t[r][c]) :
                  \/ arg.t[r][c][k] \in {LF, CR} /\ ret[r][c][k] = " "
                  \/ arg.t[r][c][k] \notin {LF, CR} /\ ret[r][c][k] = arg.t[r][c][k]

\* row 0 had a line feed and a CR LF pair replaced, and a later row kept its
\* backslash-n and lost its carriage return
C7_Witness ==
    /\ pc = "return"
    /\ Len(arg.t) = 2
    /\ arg.t[1] = <<CellHeaderLines, CellCrLf>>
    /\ arg.t[2] = <<CellEscaped, CellCr>>
    /\ ret[1][1] = <<"P","r","o","d","u","c","t"," ","N","a","m","e">>
    /\ ret[1][2] = <<"U","n","i","t"," "," ","P","r","i","c","e">>
    /\ ret[2][1] = CellEscaped
    /\ ret[2][2] = <<"a"," ","b">>

(***************************************************************************)
(* The batch: the per-file loop of the main program.  files[k] is what     *)
(* process_invoice_file gives for the k-th pdf glob found: a document, or  *)
(* the exception the analysis service raises.  Nothing in the loop catches *)
(* an exception, so a raised one ends the program; ret then holds it.      *)
(***************************************************************************)
KeyInvoiceDate == <<"I","n","v","o","i","c","e"," ","D","a","t","e",":">>
KeyIssueDate == <<"I","s","s","u","e"," ","d","a","t","e">>
KeyFoo == <<"F","o","o">>
ValueBar == <<"b","a","r">>
ValueJune23 == <<" ","2","3"," ","J","u","n","e",","," ","2","0","1","8">>

KeyValueChoices == {
    << >>,
    << [key |-> KeyFoo, value |-> ValueBar], [key |-> KeyInvoiceDate, value |-> ValueJune23] >>,
    << [key |-> KeyIssueDate, value |-> ValueBar] >> }

TableDescription == << <<CellDescription, CellQty>>, <<CellWidget, CellAmount>> >>
TableProducts == << <<CellProductName, CellPrice>>, <<CellWidget, CellAmount>> >>
TableNoRows == << >>

TablesChoices == {
    << >>,
    <<TableDescription>>,
    <<TableProducts>>,
    <<TableDescription, TableProducts>>,
    <<TableNoRows, TableProducts>> }

Documents == [key_values : KeyValueChoices, tables : TablesChoices]

AnalysisOutcomes == Documents \cup {AnalysisError}

MsgSuccess == "File was processed successfully"
MsgNoDate == "File was processed without a date"
MsgNoTable == "Script failed to locate an invoice detail list table in file"

Init ==
    /\ pc = "for"
    /\ files \in SeqsUpTo(AnalysisOutcomes, MaxFiles)
    /\ file = 0
    /\ textractor_document = None
    /\ dt = None
    /\ idx = None
    /\ out_files = [k \in 1..Len(files) |-> None]
    /\ log = <<>>
    /\ arg = None
    /\ ret = None

\* for file in glob.glob(...): take the next file, or leave the loop
ForNextFile ==
    /\ pc = "for"
    /\ IF file < Len(files)
       THEN file' = file + 1 /\ pc' = "process_invoice_file"
       ELSE file' = file /\ pc' = "done"
    /\ UNCHANGED <<arg, ret, files, textractor_document, dt, idx, out_files, log>>

\* textractor_document = process_invoice_file(...)
ProcessInvoiceFile ==
    /\ pc = "process_invoice_file"
    /\ IF files[file] = AnalysisError
       THEN /\ ret' = AnalysisError
            /\ pc' = "crashed"
            /\ UNCHANGED textractor_document
       ELSE /\ textractor_document' = files[file]
            /\ pc' = "locate_invoice_date"
            /\ UNCHANGED ret
    /\ UNCHANGED <<arg, files, file, dt, idx, out_files, log>>

\* dt = locate_invoice_date(textractor_document)
LocateInvoiceDate ==
    /\ pc = "locate_invoice_date"
    /\ dt' = locate_invoice_date(textractor_document)
    /\ pc' = "locate_invoice_table"
    /\ UNCHANGED <<arg, ret, files, file, textractor_document, idx, out_files, log>>

\* the test with index 0 taken for "not found"
TableFound_Positive(r) == r.value > 0

\* if idx >= 0
TableFound(r) == r.value >= 0

\* idx = locate_invoice_table(textractor_document.tables), and the test on idx
LocateInvoiceTable ==
    /\ pc = "locate_invoice_table"
    /\ LET r == locate_invoice_table(textractor_document.tables) IN
       IF r = IndexError
       THEN /\ ret' = IndexError
            /\ pc' = "crashed"
            /\ UNCHANGED idx
       ELSE /\ idx' = r
            /\ pc' = (IF TableFound(r) THEN "export" ELSE "warn_no_table")
            /\ UNCHANGED ret
    /\ UNCHANGED <<arg, files, file, textractor_document, dt, out_files, log>>

\* export_textract_table_to_csv(textractor_document.tables[idx], out_file, dt)
ExportTable ==
    /\ pc = "export"
    /\ LET rows == export_textract_table_to_csv(
                       textractor_document.tables[idx.value + 1], dt) IN
       IF rows = IndexError
       THEN /\ ret' = IndexError
            /\ pc' = "crashed"
            /\ UNCHANGED out_files
       ELSE /\ out_files' = [out_files EXCEPT ![file] = rows]
            /\ pc' = "log_processed"
            /\ UNCHANGED ret
    /\ UNCHANGED <<arg, files, file, textractor_document, dt, idx, log>>

\* the logging call after the export
LogProcessed ==
    /\ pc = "log_processed"
    /\ log' = Append(log,
                IF dt = None
                THEN [level |-> "WARNING", msg |-> MsgNoDate, file |-> file]
                ELSE [level |-> "INFO", msg |-> MsgSuccess, file |-> file])
    /\ pc' = "for"
    /\ UNCHANGED <<arg, ret, files, file, textractor_document, dt, idx, out_files>>

\* the logging call of the else branch
WarnNoTable ==
    /\ pc = "warn_no_table"
    /\ log' = Append(log, [level |-> "WARNING", msg |-> MsgNoTable, file |-> file])
    /\ pc' = "for"
    /\ UNCHANGED <<arg, ret, files, file, textractor_document, dt, idx, out_files>>

Next ==
    \/ ForNextFile
    \/ ProcessInvoiceFile
    \/ LocateInvoiceDate
    \/ LocateInvoiceTable
    \/ ExportTable
    \/ LogProcessed
    \/ WarnNoTable

Spec == Init /\ [][Next]_vars

\* the program has ended, by leaving the loop or by an uncaught exception
Ended == pc \in {"done", "crashed"}

\* the log lines about file k
LogLinesOf(k) == {n \in 1..Len(log) : log[n].file = k}

\* the loop body has run to its end for file k
Handled(k) == k < file \/ (k = file /\ pc \in {"for", "done"})

\* C1: an analysis failure on one file fails that file only: the batch goes on
\* and every later file is analysed, searched and exported or warned about, so
\* that when the program has ended each later file with a document has its log
\* line.
C1_AnalysisFailureIsPerFile ==
    \A k \in 1..Len(files) :
        (Ended /\ k <= file /\ files[k] = AnalysisError) =>
            \A j \in (k + 1)..Len(files) :
                files[j] \in Documents => LogLinesOf(j) # {}

\* C4: once the loop has handled a file, its csv has been written if and only
\* if locate_invoice_table returned an index >= 0 for its document; no table
\* means no file, a table without a date still means a file.
C4_OutputIffTableLocated ==
    \A k \in 1..Len(files) :
        Handled(k) =>
            /\ (out_files[k] # None) <=> (FirstMatchingTable(files[k].tables) >= 0)
            /\ (k = file) =>
                  ((out_files[k] # None) <=> (idx.value >= 0))

\* both files are handled: the first, with its table at index 0 and no date,
\* has its csv, the second, without a matching table, has none
C4_Witness ==
    /\ pc = "done"
    /\ Len(files) = 2
    /\ files[1].tables = <<TableProducts>>
    /\ locate_invoice_date(files[1]) = None
    /\ out_files[1] # None
    /\ files[2].tables = <<TableDescription>>
    /\ out_files[2] = None

\* the log line the claim gives file k of the document doc
ExpectedLine(k, doc) ==
    IF FirstMatchingTable(doc.tables) < 0
    THEN [level |-> "WARNING", msg |-> MsgNoTable, file |-> k]
    ELSE IF locate_invoice_date(doc) = None
    THEN [level |-> "WARNING", msg |-> MsgNoDate, file |-> k]
    ELSE [level |-> "INFO", msg |-> MsgSuccess, file |-> k]

\* C10: every file whose analysis call returned gets exactly one log line, of
\* the kind its table and date call for, before the loop moves on or the
\* program ends; a file's export precedes its log line, and the log line of
\* file k precedes any processing of file k+1.
C10_OneLogLinePerFile ==
    /\ \A k \in 1..Len(files) :
          (files[k] \in Documents /\ (k < file \/ (k = file /\ pc = "for") \/ (k = file /\ Ended)))
              => /\ Cardinality(LogLinesOf(k)) = 1
                 /\ \A n \in LogLinesOf(k) : log[n] = ExpectedLine(k, files[k])
    /\ \A n \in 1..Len(log) :
          /\ log[n].msg # MsgNoTable => out_files[log[n].file] # None
          /\ log[n].file <= file
    /\ \A m, n \in 1..Len(log) : m < n => log[m].file < log[n].file

====
